---- MODULE Spec2Model ----
(***************************************************************************)
(* macrofx: the six-phase pipeline executor (createPipeline.execute).      *)
(*                                                                         *)
(* One execute call is modelled from its invocation to its settlement.     *)
(* The repository holds two revisions of execute: src/core.ts awaits each  *)
(* resolve in turn and hands `base` to onError; src/unnamed/part_012       *)
(* starts every resolve, joins them with Promise.all, merges by index and  *)
(* hands `ctx` to onError.  `rev` selects the revision.                    *)
(*                                                                         *)
(* The macros and the step are caller-supplied callbacks: what each hook   *)
(* does when it is reached (the macro has no such hook, the hook returns   *)
(* undefined, returns a value, or throws) is an input drawn at the call.   *)
(* execute keeps no state between calls, so one call covers every call.    *)
(* match is a total predicate and validate / onError are synchronous, as   *)
(* the Macro type declares them.                                           *)
(***************************************************************************)
EXTENDS Integers, Sequences, FiniteSets, TLC

\* Number of macros handed to createPipeline.
NMacros == 2

Macros == 1..NMacros

\* Property names that base and the resolved fragments may carry.
Keys == {"k0", "k1"}

Revs == {"seq", "par"}

HookKinds == {"validate", "resolve", "before", "onError", "after"}

\* A JavaScript value: a tag and a number.
V(tag, n) == [tag |-> tag, n |-> n]

Undefined == V("undefined", 0)

IsDefined(v) == v # Undefined

\* An object literal with no own property.
EmptyObj == [k \in {} |-> 0]

\* A settled resolve: the object it produced, or a falsy value.
NoObj == [def |-> FALSE, obj |-> EmptyObj]
Obj(o) == [def |-> TRUE, obj |-> o]

\* What the caller's makeBase() returns.
MakeBase == [k \in {"k0"} |-> 0]

\* The objects macro m's resolve may return: every key carries m.
Fragments(m) == {[k \in S |-> m] : S \in (SUBSET Keys) \ {{}}}

\* The values the step's run may return.
RunValues == {V("num", 10)}

VARIABLES
    rev,        \* which revision of execute runs
    pc,         \* position of the execute call
    idx,        \* loop index into macros (match) or active (the hook loops)
    matchCalls, \* matchCalls[m]: how often m.match was evaluated
    matchRes,   \* matchRes[m]: what m.match returned ("none" before the call)
    active,     \* macros.filter(m => m.match(meta))
    st,         \* st[kind][m]: what became of m's hook of that kind
    baseCalls,  \* how often makeBase was called
    base,       \* const base = makeBase()
    resolved,   \* resolved[m]: the value m.resolve settled with
    lastSettled, \* the macro whose resolve fulfilled most recently (0: none yet)
    added,      \* const added
    warned,     \* keys console.warn reported as duplicate
    ctx,        \* const ctx = {...base, ...added}
    hookCtx,    \* hookCtx[kind][m]: first argument handed to m's hook
    runSt,      \* "idle", "returned" or "thrown"
    runCtx,     \* the argument handed to s.run
    runRet,     \* the value s.run returned
    result,     \* let result
    afterArg,   \* afterArg[m]: third argument handed to m.after
    err,        \* the value caught from run
    output      \* settlement of the promise execute returned

\* The circuit breaker (createCircuitBreaker) and the calls made on it.
VARIABLES
    threshold,  \* const threshold
    reset,      \* const reset
    failureCount, \* let failureCount
    openedAt,   \* let openedAt
    halfProbeInFlight, \* let halfProbeInFlight
    mode,       \* let mode
    clock,      \* what Date.now() returns
    wrapSt,     \* wrapSt[c]: where caller c's wrap(fn) call stands
    lastCall,   \* the most recent call of allow / onSuccess / onFailure
    streak      \* failures reported while closed since the last reported success

brVars == <<threshold, reset, failureCount, openedAt, halfProbeInFlight, mode, clock,
            wrapSt, lastCall, streak>>

\* A cache (createCache) and the calls made on it.
VARIABLES
    maxSize,    \* const maxSize (0: no cache was created)
    defaultTtlMs, \* const defaultTtlMs
    map,        \* const map, its entries in iteration order
    recent,     \* the stored keys, the least recently accessed first
    cacheOp     \* the most recent call of get / set / invalidate / clear

cacheVars == <<maxSize, defaultTtlMs, map, recent, cacheOp>>

\* The store of the cache macro and the execute calls of a pipeline made of
\* that macro.
VARIABLES
    store,      \* const store, its entries in iteration order
    cleanupTimer, \* let cleanupTimer: when the sweep is due
    execSt      \* execSt[x]: where execute call x stands

storeVars == <<store, cleanupTimer, execSt>>

\* A runWithRetry call.
VARIABLES
    retryRev,   \* which revision of runWithRetry runs
    signal,     \* the classifier argument
    times,      \* the times argument
    delayMs,    \* the delayMs argument
    retryPc,    \* position of the call
    retryI,     \* let i
    lastSignal, \* let lastSignal
    outcomes,   \* how each call of fn ended, in order
    sleeps,     \* how often sleep(delayMs) was awaited
    slept,      \* the argument of each sleep call, in order
    retryOut    \* settlement of the promise runWithRetry returned

retryVars == <<retryRev, signal, times, delayMs, retryPc, retryI, lastSignal, outcomes,
               sleeps, slept, retryOut>>

\* A timeoutWrapper(ms, label)(thunk) call.
VARIABLES
    ms,        \* the ms argument
    label,     \* the label argument
    toPc,      \* position of the call
    toClock,   \* milliseconds since the call
    thunkP,    \* settlement of the promise thunk() returned
    pAt,       \* when that promise settled
    reaction,  \* the callbacks of p.then are queued
    timer,     \* const t
    settles,   \* how often the returned promise changed its state
    toOut,     \* settlement of the promise the wrapper returned
    unhandled  \* rejections that reached no handler

timeoutVars == <<ms, label, toPc, toClock, thunkP, pAt, reaction, timer, settles, toOut,
                 unhandled>>

\* The state of everything beside the pipeline.
compVars == <<brVars, cacheVars, storeVars, retryVars, timeoutVars>>

pipeVars == <<rev, pc, idx, matchCalls, matchRes, active, st, baseCalls, base, resolved,
              lastSettled, added, warned, ctx, hookCtx, runSt, runCtx, runRet, result,
              afterArg, err, output>>

vars == <<pipeVars, compVars>>

Pending == [kind |-> "pending", v |-> Undefined]
Fulfilled(v) == [kind |-> "fulfilled", v |-> v]
Rejected(e) == [kind |-> "rejected", v |-> e]

\* The error macro m's hook of the given kind throws.
HookError(kind, m) == V("err_" \o kind, m)

\* The error the step's run throws.
RunError == V("err_run", 0)

\* The defined value macro m's before / onError hook returns.
HookValue(kind, m) == V(kind, m)

InitPipeline ==
    /\ rev \in Revs
    /\ pc = "idle"
    /\ idx = 0
    /\ matchCalls = [m \in Macros |-> 0]
    /\ matchRes = [m \in Macros |-> "none"]
    /\ active = <<>>
    /\ st = [kind \in HookKinds |-> [m \in Macros |-> "idle"]]
    /\ baseCalls = 0
    /\ base = EmptyObj
    /\ resolved = [m \in Macros |-> NoObj]
    /\ lastSettled = 0
    /\ added = EmptyObj
    /\ warned = {}
    /\ ctx = EmptyObj
    /\ hookCtx = [kind \in HookKinds |-> [m \in Macros |-> EmptyObj]]
    /\ runSt = "idle"
    /\ runCtx = EmptyObj
    /\ runRet = Undefined
    /\ result = Undefined
    /\ afterArg = [m \in Macros |-> Undefined]
    /\ err = Undefined
    /\ output = Pending

\* ------------------------------------------------------------------------
\* Helpers of execute

\* The hook loops run over active: the macro the loop index points at.
InLoop == idx <= Len(active)
Cur == active[idx]

\* Variant: the filter keeps every macro.
FilterKeepAll(act, m, matched) == Append(act, m)

\* macros.filter keeps m exactly when m.match(meta) returned true.
FilterKeep(act, m, matched) == IF matched THEN Append(act, m) ELSE act

\* Variant: properties already on target are kept.
ObjectAssignKeep(target, src) == target @@ src

\* Object.assign(target, src): src's properties overwrite target's.
ObjectAssign(target, src) == src @@ target

\* Mutant: only the second object is spread.
SpreadSecond(a, b) == b

\* { ...a, ...b }
Spread(a, b) == b @@ a

\* Variant: the return value of before is ignored.
ShortCircuitsNever(short) == FALSE

\* typeof short !== "undefined"
ShortCircuits(short) == IsDefined(short)

\* Variant: the return value of onError is ignored.
HandlesNever(v) == FALSE

\* typeof v !== "undefined" in the onError loop
Handles(v) == IsDefined(v)

\* Variant: the caught error is wrapped before it is thrown again.
RethrowWrapped(e) == V("err_wrapped", e.n)

\* throw err at the end of the catch block
Rethrow(e) == e

\* Variant: the return value of after is dropped.
NextResultKeep(maybe, res) == res

\* if (typeof maybe !== "undefined") result = maybe
NextResult(maybe, res) == IF IsDefined(maybe) THEN maybe ELSE res

\* What an after hook of the given behaviour returns for result r.
AfterReturn(how, r) ==
    CASE how = "inc" -> V("num", r.n + 1)
      [] how = "dbl" -> V("num", r.n * 2)
      [] OTHER -> Undefined

\* The first argument of onError: base in src/core.ts, ctx in part_012.
OnErrorArg == IF rev = "seq" THEN base ELSE ctx

\* Variant: the join does not wait.
AllResolvedNoWait == TRUE

\* Promise.all has every resolve's value.
AllResolved == \A m \in Macros : st["resolve"][m] # "running"

\* The merge loop of part_012 over the first n entries of active.
RECURSIVE MergeAdded(_)
MergeAdded(n) ==
    IF n = 0 THEN EmptyObj
    ELSE LET r == resolved[active[n]]
         IN IF r.def THEN ObjectAssign(MergeAdded(n - 1), r.obj) ELSE MergeAdded(n - 1)

RECURSIVE MergeSeen(_)
MergeSeen(n) ==
    IF n = 0 THEN {}
    ELSE LET r == resolved[active[n]]
         IN IF r.def THEN MergeSeen(n - 1) \cup DOMAIN r.obj ELSE MergeSeen(n - 1)

\* IS_DEVELOPMENT: true unless NODE_ENV is "production".
IS_DEVELOPMENT == TRUE

RECURSIVE MergeWarned(_)
MergeWarned(n) ==
    IF n = 0 THEN {}
    ELSE LET r == resolved[active[n]]
         IN IF r.def /\ IS_DEVELOPMENT
            THEN MergeWarned(n - 1) \cup (DOMAIN r.obj \cap MergeSeen(n - 1))
            ELSE MergeWarned(n - 1)

Settle(o) == /\ output' = o
             /\ pc' = "done"

\* Variant: an error thrown by validate is swallowed.
ValidateThrewSwallowed(m) ==
    /\ idx' = idx + 1
    /\ UNCHANGED <<pc, output>>

\* m.validate throws: the error leaves execute.
ValidateThrew(m) ==
    /\ Settle(Rejected(HookError("validate", m)))
    /\ UNCHANGED idx

\* Variant: a recovered value is fed to the after hooks.
RecoveredThenAfter(v) ==
    /\ result' = v
    /\ pc' = "after"
    /\ idx' = 1
    /\ UNCHANGED output

\* return v as Out, in the catch block
Recovered(v) ==
    /\ Settle(Fulfilled(v))
    /\ UNCHANGED <<idx, result>>

\* Variant: the try block also covers the after hooks.
AfterThrewCaught(m) ==
    /\ err' = HookError("after", m)
    /\ pc' = "onError"
    /\ idx' = 1
    /\ UNCHANGED output

\* m.after throws, outside the try block: the error leaves execute.
AfterThrew(m) ==
    /\ Settle(Rejected(HookError("after", m)))
    /\ UNCHANGED <<idx, err>>

\* ------------------------------------------------------------------------
\* execute(s)

\* The caller invokes execute: the filter over macros begins.
Execute ==
    /\ pc = "idle"
    /\ pc' = "match"
    /\ idx' = 1
    /\ UNCHANGED <<matchRes, lastSettled, runRet, rev, matchCalls, active, st,
                   baseCalls, base, resolved, added, warned, ctx, hookCtx, runSt,
                   runCtx, result, afterArg, err, output>>
    /\ UNCHANGED compVars

\* macros.filter((m) => m.match(meta)): one predicate call per macro.
Match ==
    /\ pc = "match"
    /\ idx <= NMacros
    /\ \E matched \in BOOLEAN :
          /\ matchRes' = [matchRes EXCEPT ![idx] = IF matched THEN "true" ELSE "false"]
          /\ active' = FilterKeep(active, idx, matched)
    /\ matchCalls' = [matchCalls EXCEPT ![idx] = @ + 1]
    /\ idx' = idx + 1
    /\ UNCHANGED <<lastSettled, runRet, rev, pc, st, baseCalls, base, resolved, added,
                   warned, ctx, hookCtx, runSt, runCtx, result, afterArg, err, output>>
    /\ UNCHANGED compVars

MatchDone ==
    /\ pc = "match"
    /\ idx > NMacros
    /\ pc' = "validate"
    /\ idx' = 1
    /\ UNCHANGED <<matchRes, lastSettled, runRet, rev, matchCalls, active, st,
                   baseCalls, base, resolved, added, warned, ctx, hookCtx, runSt,
                   runCtx, result, afterArg, err, output>>
    /\ UNCHANGED compVars

\* for (const m of active) m.validate?.(meta)
\* The optional call yields undefined whether m has no validate or validate
\* returns, and nothing reads it: "returned" stands for both.
Validate ==
    /\ pc = "validate"
    /\ InLoop
    /\ \E how \in {"returned", "thrown"} :
          /\ st' = [st EXCEPT !["validate"][Cur] = how]
          /\ IF how = "thrown"
             THEN ValidateThrew(Cur)
             ELSE /\ idx' = idx + 1
                  /\ UNCHANGED <<pc, output>>
    /\ UNCHANGED <<matchRes, lastSettled, runRet, rev, matchCalls, active, baseCalls,
                   base, resolved, added, warned, ctx, hookCtx, runSt, runCtx, result,
                   afterArg, err>>
    /\ UNCHANGED compVars

\* const base = makeBase(); const added = {}
ValidateDone ==
    /\ pc = "validate"
    /\ ~InLoop
    /\ base' = MakeBase
    /\ baseCalls' = baseCalls + 1
    /\ added' = EmptyObj
    /\ pc' = "resolve"
    /\ idx' = 1
    /\ UNCHANGED <<matchRes, lastSettled, runRet, rev, matchCalls, active, st, resolved,
                   warned, ctx, hookCtx, runSt, runCtx, result, afterArg, err, output>>
    /\ UNCHANGED compVars

\* m.resolve(base, meta) is called: it starts, or it throws at once, or m has
\* no resolve.  src/core.ts awaits the call; part_012 goes on to the next macro.
ResolveCall ==
    /\ pc = "resolve"
    /\ InLoop
    /\ \E how \in {"absent", "running", "thrown"} :
          /\ st' = [st EXCEPT !["resolve"][Cur] = how]
          /\ hookCtx' = IF how = "absent" THEN hookCtx
                        ELSE [hookCtx EXCEPT !["resolve"][Cur] = base]
          /\ CASE how = "thrown" ->
                    /\ Settle(Rejected(HookError("resolve", Cur)))
                    /\ UNCHANGED idx
               [] how = "running" /\ rev = "seq" ->
                    /\ pc' = "await"
                    /\ UNCHANGED <<idx, output>>
               [] OTHER ->
                    /\ idx' = idx + 1
                    /\ UNCHANGED <<pc, output>>
    /\ UNCHANGED <<matchRes, lastSettled, runRet, rev, matchCalls, active, baseCalls,
                   base, resolved, added, warned, ctx, runSt, runCtx, result, afterArg,
                   err>>
    /\ UNCHANGED compVars

\* part_012: active.map(...) has called every resolve; await Promise.all.
ResolveJoin ==
    /\ rev = "par"
    /\ pc = "resolve"
    /\ ~InLoop
    /\ pc' = "await"
    /\ UNCHANGED <<matchRes, lastSettled, runRet, rev, idx, matchCalls, active, st,
                   baseCalls, base, resolved, added, warned, ctx, hookCtx, runSt,
                   runCtx, result, afterArg, err, output>>
    /\ UNCHANGED compVars

\* A started resolve settles while execute awaits it.
ResolveSettle ==
    /\ pc = "await"
    /\ \E m \in Macros :
          /\ st["resolve"][m] = "running"
          /\ \/ \E r \in {NoObj} \cup {Obj(f) : f \in Fragments(m)} :
                   /\ st' = [st EXCEPT !["resolve"][m] = "fulfilled"]
                   /\ resolved' = [resolved EXCEPT ![m] = r]
                   /\ lastSettled' = m
                   /\ IF rev = "seq"
                      THEN /\ added' = IF r.def THEN ObjectAssign(added, r.obj) ELSE added
                           /\ idx' = idx + 1
                           /\ pc' = "resolve"
                      ELSE UNCHANGED <<added, idx, pc>>
                   /\ UNCHANGED output
             \/ /\ st' = [st EXCEPT !["resolve"][m] = "rejected"]
                /\ Settle(Rejected(HookError("resolve", m)))
                /\ UNCHANGED <<resolved, lastSettled, added, idx>>
    /\ UNCHANGED <<matchRes, runRet, rev, matchCalls, active, baseCalls, base, warned,
                   ctx, hookCtx, runSt, runCtx, result, afterArg, err>>
    /\ UNCHANGED compVars

\* part_012: a resolve still running when Promise.all rejected settles later;
\* nothing waits for it.
ResolveSettleLate ==
    /\ pc = "done"
    /\ \E m \in Macros :
          /\ st["resolve"][m] = "running"
          /\ \E how \in {"fulfilled", "rejected"} :
                st' = [st EXCEPT !["resolve"][m] = how]
    /\ UNCHANGED <<matchRes, lastSettled, runRet, rev, pc, idx, matchCalls, active,
                   baseCalls, base, resolved, added, warned, ctx, hookCtx, runSt,
                   runCtx, result, afterArg, err, output>>
    /\ UNCHANGED compVars

\* const ctx = { ...base, ...added }, in part_012 after the merge loop.
BuildCtx ==
    /\ \/ rev = "seq" /\ pc = "resolve" /\ ~InLoop
       \/ rev = "par" /\ pc = "await" /\ AllResolved
    /\ LET merged == IF rev = "seq" THEN added ELSE MergeAdded(Len(active))
       IN /\ added' = merged
          /\ ctx' = Spread(base, merged)
    /\ warned' = IF rev = "seq" THEN warned ELSE MergeWarned(Len(active))
    /\ pc' = "before"
    /\ idx' = 1
    /\ UNCHANGED <<matchRes, lastSettled, runRet, rev, matchCalls, active, st,
                   baseCalls, base, resolved, hookCtx, runSt, runCtx, result, afterArg,
                   err, output>>
    /\ UNCHANGED compVars

\* for (const m of active) if (m.before) { short = await m.before(ctx, meta); ... }
Before ==
    /\ pc = "before"
    /\ InLoop
    /\ \E how \in {"absent", "undef", "value", "thrown"} :
          LET short == IF how = "value" THEN HookValue("before", Cur) ELSE Undefined
          IN /\ st' = [st EXCEPT !["before"][Cur] = how]
             /\ hookCtx' = IF how = "absent" THEN hookCtx
                           ELSE [hookCtx EXCEPT !["before"][Cur] = ctx]
             /\ CASE how = "thrown" ->
                       /\ Settle(Rejected(HookError("before", Cur)))
                       /\ UNCHANGED idx
                  [] how # "thrown" /\ ShortCircuits(short) ->
                       /\ Settle(Fulfilled(short))
                       /\ UNCHANGED idx
                  [] OTHER ->
                       /\ idx' = idx + 1
                       /\ UNCHANGED <<pc, output>>
    /\ UNCHANGED <<matchRes, lastSettled, runRet, rev, matchCalls, active, baseCalls,
                   base, resolved, added, warned, ctx, runSt, runCtx, result, afterArg,
                   err>>
    /\ UNCHANGED compVars

BeforeDone ==
    /\ pc = "before"
    /\ ~InLoop
    /\ pc' = "run"
    /\ UNCHANGED <<matchRes, lastSettled, runRet, rev, idx, matchCalls, active, st,
                   baseCalls, base, resolved, added, warned, ctx, hookCtx, runSt,
                   runCtx, result, afterArg, err, output>>
    /\ UNCHANGED compVars

\* try { result = await s.run(ctx) } catch (err) { ... }
Run ==
    /\ pc = "run"
    /\ runCtx' = ctx
    /\ idx' = 1
    /\ \/ \E v \in RunValues :
             /\ runSt' = "returned"
             /\ runRet' = v
             /\ result' = v
             /\ pc' = "after"
             /\ UNCHANGED err
       \/ /\ runSt' = "thrown"
          /\ err' = RunError
          /\ pc' = "onError"
          /\ UNCHANGED <<runRet, result>>
    /\ UNCHANGED <<matchRes, lastSettled, rev, matchCalls, active, st, baseCalls, base,
                   resolved, added, warned, ctx, hookCtx, afterArg, output>>
    /\ UNCHANGED compVars

\* for (const m of active) { v = m.onError?.(..., meta, err); if defined return v }
OnError ==
    /\ pc = "onError"
    /\ InLoop
    /\ \E how \in {"absent", "undef", "value", "thrown"} :
          LET v == IF how = "value" THEN HookValue("onError", Cur) ELSE Undefined
          IN /\ st' = [st EXCEPT !["onError"][Cur] = how]
             /\ hookCtx' = IF how = "absent" THEN hookCtx
                           ELSE [hookCtx EXCEPT !["onError"][Cur] = OnErrorArg]
             /\ CASE how = "thrown" ->
                       /\ Settle(Rejected(HookError("onError", Cur)))
                       /\ UNCHANGED <<idx, result>>
                  [] how # "thrown" /\ Handles(v) ->
                       Recovered(v)
                  [] OTHER ->
                       /\ idx' = idx + 1
                       /\ UNCHANGED <<pc, output, result>>
    /\ UNCHANGED <<matchRes, lastSettled, runRet, rev, matchCalls, active, baseCalls,
                   base, resolved, added, warned, ctx, runSt, runCtx, afterArg, err>>
    /\ UNCHANGED compVars

\* throw err
OnErrorDone ==
    /\ pc = "onError"
    /\ ~InLoop
    /\ Settle(Rejected(Rethrow(err)))
    /\ UNCHANGED <<matchRes, lastSettled, runRet, rev, idx, matchCalls, active, st,
                   baseCalls, base, resolved, added, warned, ctx, hookCtx, runSt,
                   runCtx, result, afterArg, err>>
    /\ UNCHANGED compVars

\* for (const m of active) if (m.after) { maybe = await m.after(ctx, meta, result); ... }
After ==
    /\ pc = "after"
    /\ InLoop
    /\ \E how \in {"absent", "undef", "inc", "dbl", "thrown"} :
          /\ st' = [st EXCEPT !["after"][Cur] = how]
          /\ hookCtx' = IF how = "absent" THEN hookCtx
                        ELSE [hookCtx EXCEPT !["after"][Cur] = ctx]
          /\ afterArg' = IF how = "absent" THEN afterArg
                         ELSE [afterArg EXCEPT ![Cur] = result]
          /\ IF how = "thrown"
             THEN /\ AfterThrew(Cur)
                  /\ UNCHANGED result
             ELSE /\ result' = IF how = "absent" THEN result
                               ELSE NextResult(AfterReturn(how, result), result)
                  /\ idx' = idx + 1
                  /\ UNCHANGED <<pc, output, err>>
    /\ UNCHANGED <<matchRes, lastSettled, runRet, rev, matchCalls, active, baseCalls,
                   base, resolved, added, warned, ctx, runSt, runCtx>>
    /\ UNCHANGED compVars

\* return result
AfterDone ==
    /\ pc = "after"
    /\ ~InLoop
    /\ Settle(Fulfilled(result))
    /\ UNCHANGED <<matchRes, lastSettled, runRet, rev, idx, matchCalls, active, st,
                   baseCalls, base, resolved, added, warned, ctx, hookCtx, runSt,
                   runCtx, result, afterArg, err>>
    /\ UNCHANGED compVars

\* ------------------------------------------------------------------------
\* The circuit breaker: createCircuitBreaker(fails, resetMs)

\* The largest first and second argument given to createCircuitBreaker.
MaxFails == 2
MaxResetMs == 2
\* The clock stops at MaxTime.
MaxTime == 4
\* The callers that may have a wrap(fn) call under way at the same time.
NCallers == 2

Callers == 1..NCallers

\* Math.max(1, Math.floor(n)) for an integer n
AtLeastOne(n) == IF n < 1 THEN 1 ELSE n

\* const now = () => Date.now()
Now == clock

\* lastCall: which of allow / onSuccess / onFailure ran last, what allow
\* returned, who called (0: directly, c: caller c's wrap); seq flips per call.
NoCall == [op |-> "none", ret |-> FALSE, who |-> 0, seq |-> 0]
Call(op, ret, who) == [op |-> op, ret |-> ret, who |-> who, seq |-> 1 - lastCall.seq]

\* The breaker as createCircuitBreaker(fails, resetMs) returns it.
InitBreakerWith(fails, resetMs) ==
    /\ threshold = AtLeastOne(fails)
    /\ reset = AtLeastOne(resetMs)
    /\ failureCount = 0
    /\ openedAt = 0
    /\ halfProbeInFlight = FALSE
    /\ mode = "closed"
    /\ clock = 0
    /\ wrapSt = [c \in Callers |-> "idle"]
    /\ lastCall = NoCall
    /\ streak = 0

\* Mutant: the reset interval counts as elapsed at once.
ElapsedAlways == TRUE

\* now() - openedAt >= reset
Elapsed == Now - openedAt >= reset

\* What allow() returns in the present state.
AllowReturns ==
    IF mode = "closed" THEN TRUE
    ELSE IF mode = "open" THEN Elapsed
    ELSE ~halfProbeInFlight

\* allow(): closed admits; open turns half_open once reset has elapsed and
\* falls through; half_open admits one probe and marks it in flight.
allow(who) ==
    /\ mode' = IF mode = "open" /\ Elapsed THEN "half_open" ELSE mode
    /\ halfProbeInFlight' =
          IF mode = "closed" \/ (mode = "open" /\ ~Elapsed)
          THEN halfProbeInFlight
          ELSE TRUE
    /\ lastCall' = Call("allow", AllowReturns, who)
    /\ UNCHANGED <<failureCount, openedAt, streak>>

\* Mutant: no success closes the breaker.
ClosesOnNever(m) == FALSE

\* Mutant: a success closes the breaker from any mode.
ClosesOnAny(m) == TRUE

\* if (mode === "half_open")
ClosesOn(m) == m = "half_open"

\* onSuccess()
onSuccess(who) ==
    /\ mode' = IF ClosesOn(mode) THEN "closed" ELSE mode
    /\ halfProbeInFlight' = IF ClosesOn(mode) THEN FALSE ELSE halfProbeInFlight
    /\ failureCount' = 0
    /\ streak' = 0
    /\ lastCall' = Call("onSuccess", FALSE, who)
    /\ UNCHANGED openedAt

\* Mutant: the breaker opens one failure late.
TripsLate(n) == n > threshold

\* if (failureCount >= threshold)
Trips(n) == n >= threshold

\* onFailure()
onFailure(who) ==
    /\ IF mode = "half_open"
       THEN /\ mode' = "open"
            /\ openedAt' = Now
            /\ halfProbeInFlight' = FALSE
            /\ failureCount' = 0
       ELSE IF mode = "closed"
       THEN IF Trips(failureCount + 1)
            THEN /\ mode' = "open"
                 /\ openedAt' = Now
                 /\ failureCount' = 0
                 /\ UNCHANGED halfProbeInFlight
            ELSE /\ failureCount' = failureCount + 1
                 /\ UNCHANGED <<mode, openedAt, halfProbeInFlight>>
       ELSE UNCHANGED <<mode, openedAt, halfProbeInFlight, failureCount>>
    /\ streak' = IF mode = "closed" THEN streak + 1 ELSE streak
    /\ lastCall' = Call("onFailure", FALSE, who)

\* Everything the breaker's operations leave alone.
brFrame == <<threshold, reset, clock, pipeVars, cacheVars, storeVars, retryVars, timeoutVars>>

\* Date.now() moves on by a millisecond.
Tick ==
    /\ clock < MaxTime
    /\ clock' = clock + 1
    /\ UNCHANGED <<threshold, reset, failureCount, openedAt, halfProbeInFlight, mode,
                   wrapSt, lastCall, streak, pipeVars, cacheVars, storeVars, retryVars,
                   timeoutVars>>

\* breaker.allow() called directly.
Allow ==
    /\ allow(0)
    /\ UNCHANGED <<wrapSt, brFrame>>

\* breaker.onSuccess() called directly.
OnSuccess ==
    /\ onSuccess(0)
    /\ UNCHANGED <<wrapSt, brFrame>>

\* breaker.onFailure() called directly.
OnFailure ==
    /\ onFailure(0)
    /\ UNCHANGED <<wrapSt, brFrame>>

InFlight == {"inflight", "probing"}

\* wrap(fn) up to its await: if (!allow()) throw ...; otherwise fn is called.
\* "probing" marks the call allow() admitted as the half_open probe.
WrapCall(c) ==
    /\ wrapSt[c] \notin InFlight
    /\ allow(c)
    /\ wrapSt' = [wrapSt EXCEPT ![c] =
                     IF ~AllowReturns THEN "rejected_open"
                     ELSE IF mode = "closed" THEN "inflight"
                     ELSE "probing"]
    /\ UNCHANGED brFrame

\* wrap(fn) after its await: fn's promise fulfilled (onSuccess, return v) or
\* rejected (onFailure, throw e).
WrapSettle(c) ==
    /\ wrapSt[c] \in InFlight
    /\ \E ok \in BOOLEAN :
          IF ok
          THEN /\ onSuccess(c)
               /\ wrapSt' = [wrapSt EXCEPT ![c] = "returned"]
          ELSE /\ onFailure(c)
               /\ wrapSt' = [wrapSt EXCEPT ![c] = "threw"]
    /\ UNCHANGED brFrame

\* ------------------------------------------------------------------------
\* The cache: createCache({maxSize, defaultTtlMs})

\* The keys and values callers use.
CacheKeys == {"a", "b", "c"}
CacheValues == {1, 2}
\* The maxSize options callers give.
SizeOpts == {0, 1, 2}
\* The clock of a cache run stops at MaxCacheTime.
MaxCacheTime == 2

\* undefined as ttlMs / defaultTtlMs, as exp, and as what get returns
NoTtl == -1
NoExp == -1
Miss == 0

\* The TTL arguments and options callers use.
Ttls == {NoTtl, 1}

\* map.has(key)
Has(m, key) == \E i \in 1..Len(m) : m[i].k = key

\* map.get(key), for a key the map has
Entry(m, key) == m[CHOOSE i \in 1..Len(m) : m[i].k = key]

\* Mutant: deleting a key the map has empties the map.
DeleteAll(m, key) == IF \E i \in 1..Len(m) : m[i].k = key THEN <<>> ELSE m

\* map.delete(key)
Delete(m, key) == SelectSeq(m, LAMBDA e : e.k # key)

\* map.set(key, e): a key the map has keeps its place in the iteration order
MapSet(m, e) ==
    IF Has(m, e.k)
    THEN [i \in 1..Len(m) |-> IF m[i].k = e.k THEN e ELSE m[i]]
    ELSE Append(m, e)

\* typeof e.exp === "number" && now() > e.exp
isExpired(e) == e.exp # NoExp /\ Now > e.exp

\* Mutant: the scan keeps the last entry it meets.
LruIndexLast(m) == Len(m)

\* The loop of evictLRU: e.at < lruAt picks the first entry, in iteration
\* order, whose at is the smallest.
LruIndex(m) ==
    CHOOSE i \in 1..Len(m) :
       /\ \A j \in 1..Len(m) : m[i].at <= m[j].at
       /\ \A j \in 1..(i - 1) : m[j].at > m[i].at

\* Mutant: nothing is evicted.
evictNothing(m) == m

\* evictLRU
evictLRU(m) == IF Len(m) <= maxSize THEN m ELSE Delete(m, m[LruIndex(m)].k)

\* Mutant: the entry expires a default interval after any set.
ExpiryAlways(ttlMs) == Now + 1

\* const exp = typeof (ttlMs ?? defaultTtlMs) === "number" ? now() + ... : undefined
Expiry(ttlMs) ==
    LET ttl == IF ttlMs # NoTtl THEN ttlMs ELSE defaultTtlMs
    IN  IF ttl # NoTtl THEN Now + ttl ELSE NoExp

\* The map once set(key, value, ttlMs) has run.  Beside v, exp and at an entry
\* records when it was set (born) and with which TTL (ttl), which no code reads.
SetMap(key, value, ttlMs) ==
    LET e == [k |-> key, v |-> value, exp |-> Expiry(ttlMs), at |-> Now, born |-> Now,
              ttl |-> IF ttlMs # NoTtl THEN ttlMs ELSE defaultTtlMs]
        m == MapSet(map, e)
    IN  IF Len(m) > maxSize THEN evictLRU(m) ELSE m

\* recent without the keys the map no longer has, key moved to the end if
\* touched.
Touch(rec, key) == Append(SelectSeq(rec, LAMBDA k : k # key), key)
Stored(rec, m) == SelectSeq(rec, LAMBDA k : Has(m, k))

\* The keys of the map.
KeysOf(m) == {m[i].k : i \in 1..Len(m)}

\* cacheOp: the call made last, its key, what it returned, the keys it removed
\* from the map; seq flips per call.
NoOp == [op |-> "none", key |-> "", ret |-> Miss, out |-> {}, seq |-> 0]
Op(op, key, ret) ==
    [op |-> op, key |-> key, ret |-> ret, out |-> KeysOf(map) \ KeysOf(map'),
     seq |-> 1 - cacheOp.seq]

\* The cache as createCache(opts) returns it.
InitCacheWith(size, ttl) ==
    /\ maxSize = AtLeastOne(size)
    /\ defaultTtlMs = ttl
    /\ map = <<>>
    /\ recent = <<>>
    /\ cacheOp = NoOp

\* Everything the cache's operations leave alone.
cacheFrame == <<maxSize, defaultTtlMs, brVars, pipeVars, storeVars, retryVars, timeoutVars>>

\* Date.now() moves on by a millisecond.
TickCache ==
    /\ clock < MaxCacheTime
    /\ clock' = clock + 1
    /\ UNCHANGED <<threshold, reset, failureCount, openedAt, halfProbeInFlight, mode,
                   wrapSt, lastCall, streak, pipeVars, cacheVars, storeVars, retryVars,
                   timeoutVars>>

\* cache.set(key, value, ttlMs)
Set(key, value, ttlMs) ==
    /\ maxSize > 0
    /\ map' = SetMap(key, value, ttlMs)
    /\ recent' = Stored(Touch(recent, key), map')
    /\ cacheOp' = Op("set", key, Miss)
    /\ UNCHANGED cacheFrame

\* cache.get(key)
Get(key) ==
    /\ maxSize > 0
    /\ IF ~Has(map, key)
       THEN /\ UNCHANGED <<map, recent>>
            /\ cacheOp' = Op("get", key, Miss)
       ELSE IF isExpired(Entry(map, key))
       THEN /\ map' = Delete(map, key)
            /\ recent' = Stored(recent, map')
            /\ cacheOp' = Op("get", key, Miss)
       ELSE /\ map' = MapSet(map, [Entry(map, key) EXCEPT !.at = Now])
            /\ recent' = Touch(recent, key)
            /\ cacheOp' = Op("get", key, Entry(map, key).v)
    /\ UNCHANGED cacheFrame

\* cache.invalidateKey(key)
InvalidateKey(key) ==
    /\ maxSize > 0
    /\ map' = Delete(map, key)
    /\ recent' = Stored(recent, map')
    /\ cacheOp' = Op("invalidateKey", key, Miss)
    /\ UNCHANGED cacheFrame

\* for (const [k, e] of map.entries()) if (predicate(k, e.v)) map.delete(k)
DeleteWhere(m, ks, vs) == SelectSeq(m, LAMBDA e : ~(e.k \in ks /\ e.v \in vs))

\* cache.invalidateWhere(predicate), the predicate holding of the pairs of a
\* key in ks and a value in vs
InvalidateWhere(ks, vs) ==
    /\ maxSize > 0
    /\ map' = DeleteWhere(map, ks, vs)
    /\ recent' = Stored(recent, map')
    /\ cacheOp' = Op("invalidateWhere", "", Miss)
    /\ UNCHANGED cacheFrame

\* cache.clear()
Clear ==
    /\ maxSize > 0
    /\ map' = <<>>
    /\ recent' = <<>>
    /\ cacheOp' = Op("clear", "", Miss)
    /\ UNCHANGED cacheFrame

\* The predicates given to invalidateWhere: by key, or by value.
Predicates ==
    {[ks |-> ks, vs |-> CacheValues] : ks \in SUBSET CacheKeys}
       \cup {[ks |-> CacheKeys, vs |-> {1}]}

\* The calls on a cache.
NextCache ==
    \/ TickCache
    \/ \E key \in CacheKeys, value \in CacheValues, ttlMs \in Ttls : Set(key, value, ttlMs)
    \/ \E key \in CacheKeys : Get(key)
    \/ \E key \in CacheKeys : InvalidateKey(key)
    \/ \E p \in Predicates : InvalidateWhere(p.ks, p.vs)
    \/ Clear

\* ------------------------------------------------------------------------
\* The cache macro (src/macros/schema.ts) in a pipeline of its own

\* MAX_CACHE_SIZE is 1000 in the source; the model keeps the comparisons and
\* scales the number down.
MAX_CACHE_SIZE == 1
\* The sweep's setTimeout delay, 60000 in the source, scaled down as well.
CleanupMs == 1
\* The callers of execute; each awaits its call before it makes the next.
Execs == {1}

\* undefined as cleanupTimer
NoTimer == -1

\* The cacheTTL values of the steps' meta (NoTtl: none given).
MacroTtls == {NoTtl, 0, 1}

\* What run returns: a value, or undefined.
RunResults == CacheValues \cup {Miss}

\* Mutant: the expiry is a cacheTTL later than it should be.
StoreExpiryLate(ttl) == IF ttl # NoTtl /\ ttl # 0 /\ ttl > 0 THEN Now + ttl + ttl ELSE NoExp

\* const expiry = ttl && ttl > 0 ? Date.now() + ttl : undefined
StoreExpiry(ttl) == IF ttl # NoTtl /\ ttl # 0 /\ ttl > 0 THEN Now + ttl ELSE NoExp

\* evictLRU of the macro: the same scan as the cache's, without a size test.
\* An entry is [k, v, exp, at] for key, value, expiry, lastAccessed;
\* accessCount, which only getCacheStats reads, is left out.
StoreEvictLRU(m) == IF Len(m) = 0 THEN m ELSE Delete(m, m[LruIndex(m)].k)

\* The store once cacheMacro.after(ctx, meta, result) has run.
AfterStore(key, ttl, res) ==
    LET m == IF Len(store) >= MAX_CACHE_SIZE /\ ~Has(store, key)
             THEN StoreEvictLRU(store)
             ELSE store
    IN  MapSet(m, [k |-> key, v |-> res, exp |-> StoreExpiry(ttl), at |-> Now])

\* scheduleCleanup(): a timer is set unless one is pending.
ScheduleCleanup == IF cleanupTimer = NoTimer THEN Now + CleanupMs ELSE cleanupTimer

\* execSt[x]: pc is "idle" or "run" (run was called and has not settled), key
\* and ttl are the step's cacheKey and cacheTTL (ttl is kept while pc is
\* "run"), out is what the last execute returned (Miss: undefined; Threw: it
\* threw), gone the keys its hooks removed from the store.
IdleExec == [pc |-> "idle", key |-> "", ttl |-> NoTtl, out |-> Miss, gone |-> {}]

\* execute rejected instead of returning.
Threw == -2

\* Mutant: nothing before returns ends the execute.
ShortIsDefinedNever(short) == FALSE

\* typeof short !== "undefined"
ShortIsDefined(short) == short # Miss

\* Everything the macro and its pipeline leave alone.
storeFrame == <<brVars, pipeVars, cacheVars, retryVars, timeoutVars>>

\* execute(step) with meta {cacheKey: key, cacheTTL: ttl} up to run: match
\* accepts the step and cacheMacro.before looks the key up.  A live entry is
\* touched and its value returned; execute returns it at once (out) unless
\* it is undefined.  Otherwise, an expired entry deleted, run is called.
ExecBefore(x, key, ttl) ==
    LET live == Has(store, key) /\ ~isExpired(Entry(store, key))
        short == IF live THEN Entry(store, key).v ELSE Miss
    IN  /\ maxSize = 0
        /\ execSt[x].pc = "idle"
        /\ store' = IF live THEN MapSet(store, [Entry(store, key) EXCEPT !.at = Now])
                    ELSE IF Has(store, key) THEN Delete(store, key)
                    ELSE store
        /\ execSt' = [execSt EXCEPT ![x] =
                         IF ShortIsDefined(short)
                         THEN [pc |-> "idle", key |-> key, ttl |-> NoTtl, out |-> short,
                               gone |-> {}]
                         ELSE [pc |-> "run", key |-> key, ttl |-> ttl, out |-> Miss,
                               gone |-> KeysOf(store) \ KeysOf(store')]]
        /\ UNCHANGED <<cleanupTimer, storeFrame>>

\* run returned res: cacheMacro.after stores it and execute returns it.
ExecAfter(x, res) ==
    /\ execSt[x].pc = "run"
    /\ store' = AfterStore(execSt[x].key, execSt[x].ttl, res)
    /\ cleanupTimer' = IF StoreExpiry(execSt[x].ttl) # NoExp
                       THEN ScheduleCleanup
                       ELSE cleanupTimer
    /\ execSt' = [execSt EXCEPT ![x].pc = "idle", ![x].ttl = NoTtl, ![x].out = res,
                                ![x].gone = @ \cup (KeysOf(store) \ KeysOf(store'))]
    /\ UNCHANGED storeFrame

\* Variant: the value of a failed run is handed to the after hooks.
ExecThrewStores(x) ==
    /\ execSt[x].pc = "run"
    /\ store' = AfterStore(execSt[x].key, execSt[x].ttl, Threw)
    /\ execSt' = [execSt EXCEPT ![x].pc = "idle", ![x].ttl = NoTtl, ![x].out = Threw]
    /\ UNCHANGED <<cleanupTimer, storeFrame>>

\* run threw: no macro has an onError, after is not reached, execute rejects.
ExecThrew(x) ==
    /\ execSt[x].pc = "run"
    /\ execSt' = [execSt EXCEPT ![x].pc = "idle", ![x].ttl = NoTtl, ![x].out = Threw]
    /\ UNCHANGED <<store, cleanupTimer, storeFrame>>

\* What execute returns when an onError hook turned the failure of run into
\* a value, as retryMacro's does: { __type: RETRY_SENTINEL, error: err }.
RetrySignal == -3

\* run threw and a macro next to cacheMacro has an onError that returns a
\* value: execute returns it from the catch block, after is not reached.
ExecRecovered(x) ==
    /\ execSt[x].pc = "run"
    /\ execSt' = [execSt EXCEPT ![x].pc = "idle", ![x].ttl = NoTtl, ![x].out = RetrySignal]
    /\ UNCHANGED <<store, cleanupTimer, storeFrame>>

\* The sweep's timer fires: expired entries go, and the sweep is scheduled
\* again if an entry with an expiry is left.
Sweep ==
    /\ maxSize = 0
    /\ cleanupTimer # NoTimer
    /\ Now >= cleanupTimer
    /\ store' = SelectSeq(store, LAMBDA e : ~isExpired(e))
    /\ cleanupTimer' = IF \E n \in 1..Len(store') : store'[n].exp # NoExp
                       THEN Now + CleanupMs
                       ELSE NoTimer
    /\ UNCHANGED <<execSt, storeFrame>>

\* clearCache()
ClearCache ==
    /\ maxSize = 0
    /\ store' = <<>>
    /\ cleanupTimer' = NoTimer
    /\ UNCHANGED <<execSt, storeFrame>>

\* The executes of a pipeline made of cacheMacro, the sweep and clearCache.
NextStore ==
    \/ \E x \in Execs, key \in CacheKeys, ttl \in MacroTtls : ExecBefore(x, key, ttl)
    \/ \E x \in Execs, res \in RunResults : ExecAfter(x, res)
    \/ \E x \in Execs : ExecThrew(x)
    \/ \E x \in Execs : ExecRecovered(x)
    \/ Sweep
    \/ ClearCache

\* ------------------------------------------------------------------------
\* runWithRetry(fn, times, delayMs, signal)

\* The largest times argument.
MaxTimes == 3

\* src/macros/env.ts ("env") and the older src/macros/retry.ts ("retry")
RetryRevs == {"env", "retry"}

\* The signal argument: the default isRetrySignal, the caller's predicate
\* (e) => e instanceof Error && e.message === "retry", and () => false.
Classifiers == {"isRetrySignal", "custom", "never"}

\* What fn returns or throws: a plain value, a RetrySignal object (its error
\* field an Error), an Error with message "retry", any other Error.
FnValues == {"ok", "sig", "errRetry", "errFatal"}
FnOutcomes == [how : {"returned", "threw"}, val : FnValues]

\* The delayMs argument.
Delays == {0, 1}

\* The error the k-th call of a step's run throws, new Error(`boom ${k}`).
Boom(k) == "boom " \o ToString(k)
RunErrors == {Boom(k) : k \in 1..MaxTimes}

\* retryMacro.onError: ({ __type: RETRY_SENTINEL, error: err })
SignalOf(e) == "sig: " \o e

\* execute(step) of createPipeline([retryMacro]) for a step with meta.retry
\* whose run throws at its k-th call: retryMacro is the one active macro, its
\* onError returns a value, execute returns that value.
ExecuteStep(k) == [how |-> "returned", val |-> SignalOf(Boom(k))]

\* isRetrySignal(val)
isRetrySignal(val) == val = "sig" \/ \E e \in RunErrors : val = SignalOf(e)

\* signal(val)
Retryable(val) ==
    CASE signal = "isRetrySignal" -> isRetrySignal(val)
      [] signal = "custom" -> val = "errRetry"
      [] OTHER -> FALSE

\* val?.error ("none": undefined)
ErrorOf(val) ==
    IF val = "sig" THEN "sigError"
    ELSE IF \E e \in RunErrors : val = SignalOf(e)
         THEN CHOOSE e \in RunErrors : val = SignalOf(e)
         ELSE "none"

\* Mutant: the exhaustion error whatever was recorded.
FinalErrorGeneric == "exhausted"

\* const finalError = lastSignal?.error ?? new Error("retry: exhausted")
FinalError == IF ErrorOf(lastSignal) # "none" THEN ErrorOf(lastSignal) ELSE "exhausted"

RetryPending == [kind |-> "pending", v |-> "none"]

\* Mutant: every settlement is a return.
RetrySettledOk(kind, v) == [kind |-> "fulfilled", v |-> v]

RetrySettled(kind, v) == [kind |-> kind, v |-> v]

\* Mutant: the loop makes one attempt more.
AttemptingOneMore == retryI <= times

\* i < times
Attempting == retryI < times

\* The call as it stands before runWithRetry is invoked.
InitRetryWith(r, c, t, d) ==
    /\ retryRev = r
    /\ signal = c
    /\ times = t
    /\ delayMs = d
    /\ retryPc = "idle"
    /\ retryI = 0
    /\ lastSignal = "none"
    /\ outcomes = <<>>
    /\ sleeps = 0
    /\ slept = <<>>
    /\ retryOut = RetryPending

\* Everything runWithRetry leaves alone.
retryFrame == <<retryRev, signal, times, delayMs, brVars, pipeVars, cacheVars, storeVars,
                timeoutVars>>

\* return / throw
RetryFinish(kind, v) ==
    /\ retryOut' = RetrySettled(kind, v)
    /\ retryPc' = "done"
    /\ UNCHANGED <<retryI, sleeps, slept>>

\* Mutant: the sleep follows the last attempt too.
SleepsAfterEvery == TRUE

\* i < times - 1
SleepsBetween == retryI < times - 1

\* if (i < times - 1) await sleep(delayMs); otherwise i++ at once
RetryContinue ==
    /\ IF SleepsBetween
       THEN /\ retryPc' = "sleep"
            /\ sleeps' = sleeps + 1
            /\ slept' = Append(slept, delayMs)
            /\ UNCHANGED retryI
       ELSE /\ retryI' = retryI + 1
            /\ UNCHANGED <<retryPc, sleeps, slept>>
    /\ UNCHANGED retryOut

\* runWithRetry is called: let lastSignal; let i = 0
RunWithRetry ==
    /\ retryPc = "idle"
    /\ retryPc' = "loop"
    /\ retryI' = 0
    /\ UNCHANGED <<lastSignal, outcomes, sleeps, slept, retryOut, retryFrame>>

\* One pass of the loop body up to its sleep: fn is called and ends as o.
\* env.ts tells a thrown outcome from a returned one; retry.ts turns a throw
\* into a value (fn().catch((e) => e)) and keeps no lastSignal.
RetryAttempt(o) ==
    /\ retryPc = "loop"
    /\ Attempting
    /\ outcomes' = Append(outcomes, o)
    /\ IF retryRev = "env"
       THEN IF Retryable(o.val)
            THEN /\ lastSignal' = o.val
                 /\ RetryContinue
            ELSE /\ RetryFinish(IF o.how = "threw" THEN "rejected" ELSE "fulfilled", o.val)
                 /\ UNCHANGED lastSignal
       ELSE /\ IF Retryable(o.val)
               THEN RetryContinue
               ELSE RetryFinish("fulfilled", o.val)
            /\ UNCHANGED lastSignal
    /\ UNCHANGED retryFrame

\* sleep(delayMs) is over: i++
RetrySleepDone ==
    /\ retryPc = "sleep"
    /\ retryPc' = "loop"
    /\ retryI' = retryI + 1
    /\ UNCHANGED <<lastSignal, outcomes, sleeps, slept, retryOut, retryFrame>>

\* The loop is over: env.ts throws lastSignal's error, or the exhaustion
\* error if there is none; retry.ts throws the exhaustion error.
RetryExhausted ==
    /\ retryPc = "loop"
    /\ ~Attempting
    /\ RetryFinish("rejected", IF retryRev = "env" THEN FinalError ELSE "exhausted")
    /\ UNCHANGED <<lastSignal, outcomes, retryFrame>>

\* The pass of the loop whose fn is () => execute(step), run throwing at each
\* call: fn has been called Len(outcomes) times before.
RetryExecute == RetryAttempt(ExecuteStep(Len(outcomes) + 1))

NextRetry ==
    \/ RunWithRetry
    \/ \E o \in FnOutcomes : RetryAttempt(o)
    \/ RetryExecute
    \/ RetrySleepDone
    \/ RetryExhausted

\* ------------------------------------------------------------------------
\* timeoutWrapper(ms, label)(thunk) and withTimeout(p, ms, label)

\* The largest ms argument, and how long a call is followed.
MaxMs == 2
MaxToTime == 3

\* ms is undefined; no time yet
NoMs == -1
NoTime == -1

\* The label argument: none, or a string.
Labels == {"undefined", "T-LABEL"}

\* label = 'timeout'
LabelOf(l) == IF l = "undefined" THEN "timeout" ELSE l

\* How the promise of thunk() may settle.
Settlements == {[kind |-> "fulfilled", v |-> "value"], [kind |-> "rejected", v |-> "error"]}
Unsettled == [kind |-> "pending", v |-> "none"]

\* reject(new Error(label))
TimeoutFailure == [kind |-> "rejected", v |-> LabelOf(label)]

\* Mutant: a later resolve or reject replaces the settlement.
PromiseSettleLast(was, next) == next

\* resolve(x) and reject(e) of new Promise: only the first call settles it.
PromiseSettle(was, next) == IF was = Unsettled THEN next ELSE was

\* Mutant: the timer's callback ends the operation as well.
InterruptsAlways == TRUE

\* The timer's callback is () => reject(new Error(label)) and nothing more:
\* it does not touch p.
Interrupts == FALSE

\* p.then is given a second callback, e => { clearTimeout(t); reject(e) }
HasOnRejected == TRUE

\* typeof ms === "number"
IsNumber(m) == m # NoMs

\* The call as it stands before the wrapper is invoked.
InitTimeoutWith(m, l) ==
    /\ ms = m
    /\ label = l
    /\ toPc = "idle"
    /\ toClock = 0
    /\ thunkP = Unsettled
    /\ pAt = NoTime
    /\ reaction = FALSE
    /\ timer = "none"
    /\ settles = 0
    /\ toOut = Unsettled
    /\ unhandled = {}

\* Everything the wrapper leaves alone.
timeoutFrame == <<ms, label, brVars, pipeVars, cacheVars, storeVars, retryVars>>

\* resolve or reject of the returned promise is called with `next`.
Deliver(next) ==
    /\ toOut' = PromiseSettle(toOut, next)
    /\ settles' = IF toOut' # toOut THEN settles + 1 ELSE settles

\* timeoutWrapper(ms, label)(thunk): thunk() is called; with a number for ms
\* withTimeout sets the timer and registers the callbacks on p, otherwise
\* the promise of thunk() is what the wrapper returns.
TimeoutCall ==
    /\ toPc = "idle"
    /\ toPc' = "called"
    /\ timer' = IF IsNumber(ms) THEN "armed" ELSE "none"
    /\ UNCHANGED <<toClock, thunkP, pAt, reaction, settles, toOut, unhandled, timeoutFrame>>

\* A millisecond passes. Queued callbacks run before any time passes, and a
\* timer's callback runs when the timer is due.
TickTimeout ==
    /\ toPc = "called"
    /\ toClock < MaxToTime
    /\ ~reaction
    /\ ~(timer = "armed" /\ toClock >= ms)
    /\ toClock' = toClock + 1
    /\ UNCHANGED <<toPc, thunkP, pAt, reaction, timer, settles, toOut, unhandled,
                   timeoutFrame>>

\* The promise of thunk() settles. Under withTimeout its callbacks are queued;
\* in the passthrough it is the returned promise itself.
ThunkSettles(how) ==
    /\ toPc = "called"
    /\ thunkP = Unsettled
    /\ thunkP' = how
    /\ pAt' = toClock
    /\ IF IsNumber(ms)
       THEN /\ reaction' = TRUE
            /\ UNCHANGED <<settles, toOut>>
       ELSE /\ Deliver(how)
            /\ UNCHANGED reaction
    /\ UNCHANGED <<toPc, toClock, timer, unhandled, timeoutFrame>>

\* x => { clearTimeout(t); resolve(x) }, e => { clearTimeout(t); reject(e) }
ThenCallback ==
    /\ reaction
    /\ reaction' = FALSE
    /\ IF thunkP.kind = "fulfilled" \/ HasOnRejected
       THEN /\ timer' = IF timer = "armed" THEN "cleared" ELSE timer
            /\ Deliver(thunkP)
            /\ UNCHANGED unhandled
       ELSE /\ unhandled' = unhandled \cup {thunkP.v}
            /\ UNCHANGED <<timer, settles, toOut>>
    /\ UNCHANGED <<toPc, toClock, thunkP, pAt, timeoutFrame>>

\* The timer's callback: () => reject(new Error(label))
TimerFires ==
    /\ timer = "armed"
    /\ toClock >= ms
    /\ ~reaction
    /\ timer' = "fired"
    /\ Deliver(TimeoutFailure)
    /\ thunkP' = IF Interrupts /\ thunkP = Unsettled
                 THEN [kind |-> "aborted", v |-> "none"]
                 ELSE thunkP
    /\ UNCHANGED <<toPc, toClock, pAt, reaction, unhandled, timeoutFrame>>

NextTimeout ==
    \/ TimeoutCall
    \/ TickTimeout
    \/ \E how \in Settlements : ThunkSettles(how)
    \/ ThenCallback
    \/ TimerFires

\* ------------------------------------------------------------------------
\* The specifications: each follows one component, the others unused

\* No breaker in use.
ParkedBreaker == InitBreakerWith(1, 1)

\* No execute call in use.
ParkedPipeline == InitPipeline /\ rev = "seq"

\* No cache in use.
ParkedCache ==
    /\ maxSize = 0
    /\ defaultTtlMs = NoTtl
    /\ map = <<>>
    /\ recent = <<>>
    /\ cacheOp = NoOp

\* The store as the module creates it, no execute made.
ParkedStore ==
    /\ store = <<>>
    /\ cleanupTimer = NoTimer
    /\ execSt = [x \in Execs |-> IdleExec]

\* No runWithRetry call in use.
ParkedRetry == InitRetryWith("env", "isRetrySignal", 1, 0)
ParkedTimeout == InitTimeoutWith(NoMs, "undefined")

InitBreaker ==
    /\ ParkedPipeline
    /\ ParkedCache
    /\ ParkedStore
    /\ ParkedRetry
    /\ ParkedTimeout
    /\ \E fails \in 0..MaxFails, resetMs \in 0..MaxResetMs :
          InitBreakerWith(fails, resetMs)

\* Any use of the breaker's four operations.
NextBreaker ==
    \/ Tick
    \/ Allow
    \/ OnSuccess
    \/ OnFailure
    \/ \E c \in Callers : WrapCall(c)
    \/ \E c \in Callers : WrapSettle(c)

SpecBreaker == InitBreaker /\ [][NextBreaker]_vars

\* A breaker used through wrap alone.
NextWrap ==
    \/ Tick
    \/ \E c \in Callers : WrapCall(c)
    \/ \E c \in Callers : WrapSettle(c)

SpecWrap == InitBreaker /\ [][NextWrap]_vars

\* The same with the claim's hypotheses as fairness: time keeps advancing,
\* every admitted fn settles, and wrap keeps being called.
FairWrap ==
    /\ WF_vars(Tick)
    /\ \A c \in Callers : WF_vars(WrapSettle(c))
    /\ WF_vars(\E c \in Callers : WrapCall(c))

\* The largest fails argument of the breakers checked under fairness.
MaxFairFails == 1

InitWrapFair ==
    /\ ParkedPipeline
    /\ ParkedCache
    /\ ParkedStore
    /\ ParkedRetry
    /\ ParkedTimeout
    /\ \E fails \in 0..MaxFairFails, resetMs \in 0..MaxResetMs :
          InitBreakerWith(fails, resetMs)

SpecWrapFair == InitWrapFair /\ [][NextWrap]_vars /\ FairWrap

InitCache ==
    /\ ParkedPipeline
    /\ ParkedBreaker
    /\ ParkedStore
    /\ ParkedRetry
    /\ ParkedTimeout
    /\ \E size \in SizeOpts, ttl \in Ttls : InitCacheWith(size, ttl)

SpecCache == InitCache /\ [][NextCache]_vars

\* A program that uses a cache, or one that runs steps through the cache
\* macro: the two share nothing but the clock.
InitCaches ==
    /\ ParkedPipeline
    /\ ParkedBreaker
    /\ ParkedStore
    /\ ParkedRetry
    /\ ParkedTimeout
    /\ \/ \E size \in SizeOpts, ttl \in Ttls : InitCacheWith(size, ttl)
       \/ ParkedCache

NextCaches ==
    \/ NextCache
    \/ NextStore

SpecCaches == InitCaches /\ [][NextCaches]_vars

\* The cache macro alone, as time passes.
NextMacro ==
    \/ TickCache
    \/ NextStore

InitMacro ==
    /\ ParkedPipeline
    /\ ParkedBreaker
    /\ ParkedCache
    /\ ParkedStore
    /\ ParkedRetry
    /\ ParkedTimeout

SpecMacro == InitMacro /\ [][NextMacro]_vars

InitRetry ==
    /\ ParkedPipeline
    /\ ParkedBreaker
    /\ ParkedCache
    /\ ParkedStore
    /\ ParkedTimeout
    /\ \E r \in RetryRevs, c \in Classifiers, t \in 0..MaxTimes, d \in Delays :
          InitRetryWith(r, c, t, d)

SpecRetry == InitRetry /\ [][NextRetry]_vars

InitTimeout ==
    /\ ParkedPipeline
    /\ ParkedBreaker
    /\ ParkedCache
    /\ ParkedStore
    /\ ParkedRetry
    /\ \E m \in {NoMs} \cup 0..MaxMs, l \in Labels : InitTimeoutWith(m, l)

SpecTimeout == InitTimeout /\ [][NextTimeout]_vars

\* ------------------------------------------------------------------------
\* The pipeline alone

Init ==
    /\ InitPipeline
    /\ ParkedBreaker
    /\ ParkedCache
    /\ ParkedStore
    /\ ParkedRetry
    /\ ParkedTimeout

Next ==
    \/ Execute
    \/ Match
    \/ MatchDone
    \/ Validate
    \/ ValidateDone
    \/ ResolveCall
    \/ ResolveJoin
    \/ ResolveSettle
    \/ ResolveSettleLate
    \/ BuildCtx
    \/ Before
    \/ BeforeDone
    \/ Run
    \/ OnError
    \/ OnErrorDone
    \/ After
    \/ AfterDone

Spec == Init /\ [][Next]_vars

\* ------------------------------------------------------------------------
\* Properties of one execute call

ActiveSet == {active[i] : i \in 1..Len(active)}

\* m's hook of that kind was called (it is running or has settled).
Invoked(kind, m) == st[kind][m] \notin {"idle", "absent"}

AnyInvoked(kind) == \E m \in Macros : Invoked(kind, m)

\* C1: the phases are ordered.  A resolve is called only once the validate of
\* every active macro has returned; a before hook only once every active
\* resolve has fulfilled; run only once every before hook has returned
\* undefined; onError and after hooks only once run has settled.
C1_PhaseOrder ==
    /\ AnyInvoked("resolve") =>
          \A a \in ActiveSet : st["validate"][a] = "returned"
    /\ AnyInvoked("before") =>
          /\ \A a \in ActiveSet : st["validate"][a] = "returned"
          /\ \A a \in ActiveSet : st["resolve"][a] \in {"absent", "fulfilled"}
    /\ runSt # "idle" =>
          /\ \A a \in ActiveSet : st["resolve"][a] \in {"absent", "fulfilled"}
          /\ \A a \in ActiveSet : st["before"][a] \in {"absent", "undef"}
    /\ (AnyInvoked("onError") \/ AnyInvoked("after")) => runSt # "idle"
    /\ ~(AnyInvoked("onError") /\ AnyInvoked("after"))

\* Every phase ran for two active macros, the second resolve fulfilling first.
C1_Witness ==
    /\ pc = "done"
    /\ rev = "par"
    /\ lastSettled = 1
    /\ \A m \in {1, 2} :
          /\ st["validate"][m] = "returned"
          /\ st["resolve"][m] = "fulfilled"
          /\ st["before"][m] = "undef"
          /\ st["after"][m] = "undef"
    /\ runSt = "returned"

\* C2: a before hook that returns a defined value short-circuits.  execute
\* fulfils with exactly that value, run is never invoked, and no before hook
\* of a later-declared macro, no after hook and no onError hook is invoked.
C2_BeforeShortCircuit ==
    \A m \in Macros :
        st["before"][m] = "value" =>
            /\ output = Fulfilled(HookValue("before", m))
            /\ pc = "done"
            /\ runSt = "idle"
            /\ \A j \in Macros : j > m => ~Invoked("before", j)
            /\ ~AnyInvoked("after")
            /\ ~AnyInvoked("onError")

\* The first of two active macros short-circuits.
C2_Witness ==
    /\ pc = "done"
    /\ active = <<1, 2>>
    /\ st["before"][1] = "value"

\* C3: when run throws, the onError hooks are called in declaration order
\* and the first defined return value is execute's output: execute fulfils
\* with it and no later-declared onError hook is invoked.
C3_OnErrorFirstWins ==
    /\ \A i, j \in ActiveSet :
          (i < j /\ Invoked("onError", j)) => st["onError"][i] \in {"absent", "undef"}
    /\ \A m \in Macros :
          st["onError"][m] = "value" =>
              /\ runSt = "thrown"
              /\ output = Fulfilled(HookValue("onError", m))
              /\ pc = "done"
              /\ \A j \in Macros : j > m => ~Invoked("onError", j)

\* The first of two active macros recovers the error.
C3_Witness ==
    /\ pc = "done"
    /\ active = <<1, 2>>
    /\ runSt = "thrown"
    /\ st["onError"][1] = "value"

\* C4: when run throws and no active macro's onError returns a defined value
\* (each returns undefined or is missing), execute rejects with the very
\* error run threw.
C4_UnhandledRethrown ==
    ( /\ pc = "done"
      /\ runSt = "thrown"
      /\ \A a \in ActiveSet : st["onError"][a] \in {"absent", "undef"} )
    => output = Rejected(RunError)

\* Two onError hooks both returned undefined and execute rejected.
C4_Witness ==
    /\ pc = "done"
    /\ runSt = "thrown"
    /\ st["onError"][1] = "undef"
    /\ st["onError"][2] = "undef"
    /\ output.kind = "rejected"

\* The result after the after hooks of the first n active macros, composed
\* left to right from what run returned.
RECURSIVE AfterChain(_)
AfterChain(n) ==
    IF n = 0 THEN runRet
    ELSE LET prev == AfterChain(n - 1)
             how == st["after"][active[n]]
         IN CASE how = "inc" -> V("num", prev.n + 1)
              [] how = "dbl" -> V("num", prev.n * 2)
              [] OTHER -> prev

\* Position of macro m in active.
PosOf(m) == CHOOSE i \in 1..Len(active) : active[i] = m

\* C5: after hooks compose left to right.  Each after hook receives the result
\* as left by the earlier-declared after hooks, a defined return replaces the
\* result, undefined leaves it, and execute returns what the last hook left:
\* run returning 10, then x+1, then x*2, gives 22.
C5_AfterChain ==
    /\ \A m \in Macros :
          Invoked("after", m) => afterArg[m] = AfterChain(PosOf(m) - 1)
    /\ ( /\ pc = "done"
         /\ runSt = "returned"
         /\ \A a \in ActiveSet : st["after"][a] # "thrown" )
       => output = Fulfilled(AfterChain(Len(active)))
    /\ ( /\ pc = "done"
         /\ active = <<1, 2>>
         /\ runRet = V("num", 10)
         /\ st["after"][1] = "inc"
         /\ st["after"][2] = "dbl" )
       => output = Fulfilled(V("num", 22))

\* run returned 10, a1 added one, a2 doubled.
C5_Witness ==
    /\ pc = "done"
    /\ active = <<1, 2>>
    /\ runRet = V("num", 10)
    /\ st["after"][1] = "inc"
    /\ st["after"][2] = "dbl"
    /\ afterArg[2] = V("num", 11)
    /\ output.kind = "fulfilled"

\* C6: after hooks are invoked only when no before hook short-circuited and
\* run returned normally.  When run threw (recovered or not) or a before hook
\* returned a defined value, no after hook is invoked.
C6_AfterOnlyOnSuccess ==
    /\ AnyInvoked("after") => runSt = "returned"
    /\ (runSt = "thrown" \/ \E m \in Macros : st["before"][m] = "value")
          => ~AnyInvoked("after")

\* run threw, the second macro's onError recovered, execute has returned.
C6_Witness ==
    /\ pc = "done"
    /\ active = <<1, 2>>
    /\ runSt = "thrown"
    /\ st["onError"][2] = "value"
    /\ output.kind = "fulfilled"

\* The active macros whose resolve fulfilled with an object that has key k.
Providers(k) == {a \in ActiveSet : resolved[a].def /\ k \in DOMAIN resolved[a].obj}

Last(S) == CHOOSE a \in S : \A b \in S : b <= a

Collision == \E k \in Keys : Cardinality(Providers(k)) >= 2

\* In context c every key that two or more active macros resolved holds the
\* value of the last-declared of them.
LastWins(c) ==
    \A k \in Keys :
        Cardinality(Providers(k)) >= 2 =>
            /\ k \in DOMAIN c
            /\ c[k] = resolved[Last(Providers(k))].obj[k]

NoResolveFailed == \A m \in Macros : st["resolve"][m] \notin {"thrown", "rejected"}

\* C7: for every key that two or more active macros resolve, the context
\* handed to the before hooks and to run holds the value of the macro declared
\* last, in whatever order the resolves completed; a collision neither makes
\* execute reject nor skips a phase.
C7_ResolveLastWins ==
    /\ \A m \in Macros : Invoked("before", m) => LastWins(hookCtx["before"][m])
    /\ runSt # "idle" => LastWins(runCtx)
    /\ (Collision /\ NoResolveFailed /\ pc = "done") =>
          /\ \A a \in ActiveSet :
                st["before"][a] = "idle" =>
                    \E b \in ActiveSet : b < a /\ st["before"][b] \in {"value", "thrown"}
          /\ (\A a \in ActiveSet : st["before"][a] \in {"absent", "undef"}) =>
                runSt # "idle"
          /\ output.kind = "rejected" =>
                \/ output.v = RunError /\ runSt = "thrown"
                \/ \E kind \in {"before", "onError", "after"} : \E m \in Macros :
                      st[kind][m] = "thrown" /\ output.v = HookError(kind, m)

\* Both macros resolved k1, the first-declared one fulfilling last, and run
\* received the second macro's value.
C7_Witness ==
    /\ rev = "par"
    /\ runSt # "idle"
    /\ lastSettled = 1
    /\ Providers("k1") = {1, 2}
    /\ Invoked("before", 1)
    /\ runCtx["k1"] = 2

\* C8: when an active macro's validate throws, execute rejects with that
\* error and nothing else happens: makeBase is not called, no resolve,
\* before, after or onError hook is invoked, and run is not invoked.
C8_ValidateAborts ==
    \A m \in Macros :
        st["validate"][m] = "thrown" =>
            /\ output = Rejected(HookError("validate", m))
            /\ pc = "done"
            /\ baseCalls = 0
            /\ runSt = "idle"
            /\ \A kind \in HookKinds \ {"validate"} : ~AnyInvoked(kind)

\* The second active macro's validate threw after the first one's returned.
C8_Witness ==
    /\ pc = "done"
    /\ st["validate"][1] = "returned"
    /\ st["validate"][2] = "thrown"

\* C9: match is evaluated exactly once per macro, before any hook runs; only
\* macros whose match returned true have hooks invoked; a macro whose match
\* returned false contributes nothing to the context or the output.
C9_MatchOnce ==
    /\ \A m \in Macros : matchCalls[m] <= 1
    /\ ( \/ pc \notin {"idle", "match"}
         \/ \E kind \in HookKinds : AnyInvoked(kind)
         \/ \E kind \in HookKinds : \E m \in Macros : st[kind][m] # "idle"
         \/ baseCalls > 0
         \/ runSt # "idle" )
       => \A m \in Macros : matchCalls[m] = 1 /\ matchRes[m] # "none"
    /\ \A m \in Macros :
          matchRes[m] # "true" =>
              /\ \A kind \in HookKinds : st[kind][m] = "idle"
              /\ resolved[m] = NoObj
              /\ \A k \in DOMAIN ctx : ctx[k] # m
              /\ \A k \in DOMAIN runCtx : runCtx[k] # m
              /\ \A kind \in HookKinds : output.v # HookValue(kind, m)
              /\ \A kind \in HookKinds : output.v # HookError(kind, m)

\* The first macro did not match, the second did and ran its hooks.
C9_Witness ==
    /\ pc = "done"
    /\ matchRes[1] = "false"
    /\ matchRes[2] = "true"
    /\ st["resolve"][2] = "fulfilled"
    /\ st["after"][2] = "inc"

\* C10: onError hooks are invoked only when run throws.  An error thrown by a
\* resolve, before or after hook leaves execute with no onError hook invoked.
C10_OnErrorOnlyForRun ==
    /\ AnyInvoked("onError") => runSt = "thrown"
    /\ \A m \in Macros :
          /\ st["resolve"][m] \in {"thrown", "rejected"} =>
                /\ pc = "done"
                /\ output.kind = "rejected"
                /\ output.v.tag = "err_resolve"
                /\ st["resolve"][output.v.n] \in {"thrown", "rejected"}
                /\ ~AnyInvoked("onError")
          /\ \A kind \in {"before", "after"} :
                st[kind][m] = "thrown" =>
                    /\ pc = "done"
                    /\ output = Rejected(HookError(kind, m))
                    /\ ~AnyInvoked("onError")

\* The second macro's after hook threw once the first one's had returned.
C10_Witness ==
    /\ pc = "done"
    /\ st["after"][1] = "undef"
    /\ st["after"][2] = "thrown"
    /\ output.kind = "rejected"

\* ------------------------------------------------------------------------
\* Claims about the circuit breaker

\* The step is a call of the named breaker operation.
Called(op) == lastCall'.seq # lastCall.seq /\ lastCall'.op = op

\* The step is such a call made by caller c's wrap.
CalledBy(op, c) == Called(op) /\ lastCall'.who = c

\* C11: a closed breaker admits every call and counts the failures reported
\* since the last success; a success sets the counter to zero; the failure
\* that makes the count reach threshold, and no other step, opens the breaker,
\* records the time and sets the counter to zero.
C11_OpensAtThreshold ==
    /\ [](mode = "closed" => failureCount = streak /\ streak < threshold)
    /\ [][mode = "closed" =>
            /\ Called("allow") => lastCall'.ret
            /\ \A c \in Callers : CalledBy("allow", c) => wrapSt'[c] = "inflight"
            /\ Called("onSuccess") => mode' = "closed" /\ failureCount' = 0
            /\ Called("onFailure") =>
                  IF streak + 1 = threshold
                  THEN mode' = "open" /\ openedAt' = clock' /\ failureCount' = 0
                  ELSE mode' = "closed" /\ failureCount' = failureCount + 1
            /\ mode' # "closed" => Called("onFailure") /\ mode' = "open"]_vars

\* Two failures in a row have opened a breaker whose threshold is two.
C11_Witness ==
    /\ threshold = 2
    /\ mode = "open"
    /\ lastCall.op = "onFailure"
    /\ streak = 2
    /\ failureCount = 0
    /\ openedAt = clock
    /\ clock > 0

\* C12: while the breaker is open and fewer than reset milliseconds have
\* passed since it opened, allow() returns false, wrap rejects without calling
\* fn, and mode, counter and open time stay as they are; the first allow()
\* once reset has passed turns the breaker half_open and admits the call.
C12_OpenRejectsUntilReset ==
    [][mode = "open" /\ Called("allow") =>
          IF clock - openedAt < reset
          THEN /\ ~lastCall'.ret
               /\ UNCHANGED <<mode, failureCount, openedAt, halfProbeInFlight>>
               /\ \A c \in Callers :
                     CalledBy("allow", c) => wrapSt'[c] = "rejected_open"
          ELSE /\ lastCall'.ret
               /\ mode' = "half_open"
               /\ \A c \in Callers :
                     CalledBy("allow", c) => wrapSt'[c] = "probing"]_vars

\* One wrap call was rejected by the open breaker and, reset having passed,
\* another was admitted as the probe.
C12_Witness ==
    /\ reset = 2
    /\ mode = "half_open"
    /\ lastCall.op = "allow"
    /\ lastCall.ret
    /\ clock - openedAt >= reset
    /\ \E c, d \in Callers :
          /\ wrapSt[c] = "rejected_open"
          /\ wrapSt[d] = "probing"
          /\ lastCall.who = d

\* The wrap calls admitted as probe that have not reported their outcome.
Probes == {c \in Callers : wrapSt[c] = "probing"}

\* C13: at most one probe is in flight at a time, and while an admitted probe
\* has not reported its outcome every further allow() or wrap call is
\* rejected, whatever the interleaving of the wrap calls.
C13_SingleProbe ==
    /\ [](Cardinality(Probes) <= 1)
    /\ [][\A p \in Callers :
             wrapSt[p] = "probing" /\ wrapSt'[p] = "probing" /\ Called("allow")
                => ~lastCall'.ret]_vars

\* C14: when the probe reports success the breaker is closed with the counter
\* at zero; when it reports failure the breaker is open with the open time
\* set to now and the counter at zero.
C14_ProbeOutcome ==
    [][\A p \in Callers :
          wrapSt[p] = "probing" =>
             /\ wrapSt'[p] = "returned" => mode' = "closed" /\ failureCount' = 0
             /\ wrapSt'[p] = "threw" =>
                   mode' = "open" /\ openedAt' = clock' /\ failureCount' = 0]_vars

\* C15: mode changes only closed -> open, open -> half_open,
\* half_open -> closed and half_open -> open, whatever the calls.
C15_ModeTransitions ==
    [][mode' # mode =>
          <<mode, mode'>> \in {<<"closed", "open">>, <<"open", "half_open">>,
                               <<"half_open", "closed">>, <<"half_open", "open">>}]_vars

\* A breaker that opened, turned half_open, closed and has opened again.
C15_Witness ==
    /\ mode = "open"
    /\ openedAt > reset
    /\ lastCall.op = "onFailure"
    /\ streak >= 1
    /\ threshold = 1
    /\ \A c \in Callers : wrapSt[c] = "idle"

\* ------------------------------------------------------------------------
\* Claims about the cache

\* The step is a call of the named cache operation.
CacheCalled(op) == cacheOp'.seq # cacheOp.seq /\ cacheOp'.op = op

\* C16: the entry a set evicts is, of the entries stored before it, the one
\* whose latest access (its set or its last get hit) lies furthest back in
\* the sequence of calls, so a get hit protects an entry from the next
\* eviction.
C16_EvictsLeastRecent ==
    [][CacheCalled("set") =>
          LET others == SelectSeq(recent, LAMBDA k : k # cacheOp'.key)
          IN  \A k \in KeysOf(map) \ KeysOf(map') : k = others[1]]_vars

\* C17: set of a key the cache does not hold, into a cache holding maxSize
\* entries, removes exactly the stored entry with the smallest at, the first
\* in iteration order among equals, and not the key set; every other entry
\* stays as it was; set of a key the cache holds removes nothing.
C17_SetEvictsOne ==
    [][CacheCalled("set") =>
          LET key == cacheOp'.key
              n == Len(map)
          IN  /\ Has(map', key)
              /\ ~Has(map, key) /\ n = maxSize =>
                    \E i \in 1..n :
                       /\ \A j \in 1..n : map[i].at <= map[j].at
                       /\ \A j \in 1..(i - 1) : map[j].at # map[i].at
                       /\ KeysOf(map') = (KeysOf(map) \ {map[i].k}) \cup {key}
                       /\ \A j \in 1..n : j # i => Entry(map', map[j].k) = map[j]
              /\ Has(map, key) =>
                    /\ KeysOf(map') = KeysOf(map)
                    /\ \A j \in 1..n : map[j].k # key => Entry(map', map[j].k) = map[j]]_vars

\* With maxSize 2, b set before a was last read, a set of c has evicted b.
C17_Witness ==
    /\ maxSize = 2
    /\ cacheOp.op = "set"
    /\ cacheOp.key = "c"
    /\ cacheOp.out = {"b"}
    /\ KeysOf(map) = {"a", "c"}
    /\ Entry(map, "a").born < Entry(map, "a").at

\* C18: get of an entry whose TTL has passed returns a miss and deletes the
\* entry; get of any other stored entry returns its value, so an entry set
\* with neither ttlMs nor defaultTtlMs never expires; get of a key not stored
\* is a miss.
C18_NoExpiredValue ==
    [][CacheCalled("get") =>
          LET key == cacheOp'.key
          IN  IF ~Has(map, key)
              THEN cacheOp'.ret = Miss /\ ~Has(map', key)
              ELSE LET e == Entry(map, key)
                   IN  IF e.ttl # NoTtl /\ clock > e.born + e.ttl
                       THEN cacheOp'.ret = Miss /\ ~Has(map', key)
                       ELSE cacheOp'.ret = e.v /\ Has(map', key)]_vars

\* A get has found its entry expired and deleted it, while an entry set
\* without any TTL at time 0 is still stored.
C18_Witness ==
    /\ cacheOp.op = "get"
    /\ cacheOp.ret = Miss
    /\ cacheOp.out = {cacheOp.key}
    /\ \E i \in 1..Len(map) : map[i].ttl = NoTtl /\ map[i].born = 0
    /\ clock = MaxCacheTime

\* C19: a cache never holds more than maxSize entries, and the cache macro's
\* store never more than MAX_CACHE_SIZE, after any calls.
C19_SizeBound ==
    /\ maxSize > 0 => Len(map) <= maxSize
    /\ Len(store) <= MAX_CACHE_SIZE

\* The macro's store was full when an execute with a further key stored its
\* result: an entry was evicted and the store is full again.  (C17_Witness is
\* the like state of a cache.)
C19_Witness ==
    /\ maxSize = 0
    /\ Len(store) = MAX_CACHE_SIZE
    /\ \E x \in Execs :
          /\ execSt[x].pc = "idle"
          /\ execSt[x].out # Miss
          /\ execSt[x].gone \ {execSt[x].key} # {}
          /\ Has(store, execSt[x].key)

\* ------------------------------------------------------------------------
\* Claims about the cache macro

\* This step is a call of execute by x.  (The sweep and clearCache leave
\* execSt alone and change the store, if at all, in its length; a call that
\* changes neither execSt nor the store leaves the state as it is.)
Executes(x) ==
    /\ execSt[x].pc = "idle"
    /\ execSt'[x] # execSt[x] \/ (store' # store /\ Len(store') = Len(store))

\* This step is the return of run, and then of execute, to x.
Returns(x) ==
    /\ execSt[x].pc = "run"
    /\ execSt'[x].pc = "idle"
    /\ execSt'[x].out \notin {Threw, RetrySignal}

\* The store holds an entry for key that has not expired.
Live(key) ==
    /\ Has(store, key)
    /\ Entry(store, key).exp = NoExp \/ Now <= Entry(store, key).exp

\* C28 as stated: an execute whose cacheKey has an entry in the store that
\* has not expired returns the entry's value without calling run.
C28_ServesStored ==
    [][\A x \in Execs :
          Executes(x) /\ Live(execSt'[x].key) =>
             /\ execSt'[x].pc = "idle"
             /\ execSt'[x].out = Entry(store, execSt'[x].key).v]_vars

\* C28 amended: an execute whose cacheKey has an entry in the store that has
\* not expired and whose value is not undefined returns that value without
\* calling run, and the entry stays in the store; over an entry whose value
\* is undefined run is called again.
C28_ServesStoredDefined ==
    [][\A x \in Execs :
          Executes(x) /\ Live(execSt'[x].key) =>
             IF Entry(store, execSt'[x].key).v # Miss
             THEN /\ execSt'[x].pc = "idle"
                  /\ execSt'[x].out = Entry(store, execSt'[x].key).v
                  /\ Has(store', execSt'[x].key)
             ELSE execSt'[x].pc = "run"]_vars

\* An entry stored at 0 with cacheTTL 1 was read at 1 by an execute that
\* returned its value.
C28_Witness ==
    \E x \in Execs :
       /\ execSt[x].pc = "idle"
       /\ Has(store, execSt[x].key)
       /\ Entry(store, execSt[x].key).exp = 1
       /\ Entry(store, execSt[x].key).at = 1
       /\ execSt[x].out = Entry(store, execSt[x].key).v
       /\ execSt[x].out # Miss

FirstFinal(k) ==
    /\ k \in 1..Len(outcomes)
    /\ ~Retryable(outcomes[k].val)
    /\ \A j \in 1..(k - 1) : Retryable(outcomes[j].val)

\* C20: fn is called at most times times; when the first attempt with an
\* outcome that is not retryable is attempt k and fn returned there,
\* runWithRetry has returned that value and fn was called exactly k times.
C20_ReturnsFirstFinal ==
    /\ Len(outcomes) <= times
    /\ \A k \in 1..Len(outcomes) :
          FirstFinal(k) /\ outcomes[k].how = "returned" =>
             /\ retryOut = RetrySettled("fulfilled", outcomes[k].val)
             /\ Len(outcomes) = k

\* With times 3, fn failed twice with a retryable error and then returned
\* "ok": runWithRetry returned "ok" after three calls and two sleeps.
C20_Witness ==
    /\ times = 3
    /\ signal = "custom"
    /\ outcomes = <<[how |-> "threw", val |-> "errRetry"],
                    [how |-> "threw", val |-> "errRetry"],
                    [how |-> "returned", val |-> "ok"]>>
    /\ retryOut = RetrySettled("fulfilled", "ok")
    /\ sleeps = 2

\* C21: when the first attempt with an outcome that is not retryable is
\* attempt k and fn threw there, runWithRetry has rejected with that same
\* error: it did not return it as a value, fn was called exactly k times and
\* the only sleeps are the k - 1 between the attempts before.
C21_RethrowsAtOnce ==
    \A k \in 1..Len(outcomes) :
       FirstFinal(k) /\ outcomes[k].how = "threw" =>
          /\ retryOut = RetrySettled("rejected", outcomes[k].val)
          /\ Len(outcomes) = k
          /\ sleeps = k - 1

\* Every attempt so far ended in a way the classifier marks retryable.
AllRetryable == \A j \in 1..Len(outcomes) : Retryable(outcomes[j].val)

\* C22: runWithRetry never returns a value the classifier marks retryable;
\* as long as every attempt was retryable and fewer than times were made the
\* call has not settled; and when it has settled after times attempts that
\* were all retryable, it has rejected.
C22_RetryableIsFailure ==
    /\ retryOut.kind = "fulfilled" => ~Retryable(retryOut.v)
    /\ AllRetryable /\ Len(outcomes) < times =>
          retryOut = RetryPending /\ retryPc # "done"
    /\ AllRetryable /\ Len(outcomes) = times /\ retryPc = "done" =>
          retryOut.kind = "rejected"

\* With times 2 and the default classifier, fn returned a RetrySignal twice:
\* runWithRetry rejected.
C22_Witness ==
    /\ times = 2
    /\ signal = "isRetrySignal"
    /\ outcomes = <<[how |-> "returned", val |-> "sig"],
                    [how |-> "returned", val |-> "sig"]>>
    /\ retryOut.kind = "rejected"

\* The error under a retryable failure: a RetrySignal's error field, a
\* retryable Error itself.
Underlying(val) == IF isRetrySignal(val) THEN ErrorOf(val) ELSE val

\* C23: when runWithRetry has settled after times attempts that were all
\* retryable, it has rejected with the error under the last of them, whatever
\* the classifier; with the exhaustion error only when there was no attempt.
C23_ThrowsLastFailure ==
    AllRetryable /\ Len(outcomes) = times /\ retryPc = "done" =>
       retryOut = RetrySettled("rejected",
                               IF times = 0 THEN "exhausted"
                               ELSE Underlying(outcomes[times].val))

\* run threw at every call so far, each time behind execute and retryMacro.
RunThrewEachTime == \A j \in 1..Len(outcomes) : outcomes[j] = ExecuteStep(j)

Followed == {k \in 1..Len(outcomes) : Retryable(outcomes[k].val) /\ k < times}

\* C25: sleep was called once for each retryable attempt that another attempt
\* follows and at no other time, each time with delayMs.
C25_SleepsBetweenAttempts ==
    /\ sleeps = Cardinality(Followed)
    /\ Len(slept) = sleeps
    /\ \A j \in 1..Len(slept) : slept[j] = delayMs

\* With times 3 and delayMs 1, three retryable attempts: runWithRetry slept
\* twice, 1 ms each, and rejected without a third sleep.
C25_Witness ==
    /\ times = 3
    /\ delayMs = 1
    /\ Len(outcomes) = 3
    /\ AllRetryable
    /\ retryPc = "done"
    /\ slept = <<1, 1>>

\* ------------------------------------------------------------------------
\* Claims about the timeout wrapper

\* C26: with a number for ms the returned promise changes its state at most
\* once. When thunk's promise settled before ms had elapsed and its callback
\* has run, the returned promise is settled as thunk's promise is; when ms
\* elapsed with thunk's promise still unsettled, the returned promise is
\* rejected with an Error whose message is label.
C26_FirstWins ==
    IsNumber(ms) =>
       /\ settles <= 1
       /\ (toOut # Unsettled) <=> (settles = 1)
       /\ pAt # NoTime /\ pAt < ms /\ ~reaction => toOut = thunkP
       /\ toClock > ms /\ (pAt = NoTime \/ pAt > ms) =>
             toOut = [kind |-> "rejected", v |-> LabelOf(label)]
       /\ label # "undefined" /\ timer = "fired" => toOut.v = label

\* With ms 2 and label "T-LABEL", thunk's promise was fulfilled after 1 ms:
\* the returned promise is fulfilled with its value and the timer is cleared.
C26_Witness ==
    /\ ms = 2
    /\ label = "T-LABEL"
    /\ pAt = 1
    /\ thunkP = [kind |-> "fulfilled", v |-> "value"]
    /\ toOut = thunkP
    /\ timer = "cleared"
    /\ toClock = 3

\* C27: once the timer has fired, thunk's promise is unsettled or settled by
\* the operation itself, never ended by the wrapper; the returned promise is
\* and stays rejected with the timeout failure, whatever thunk's promise
\* does later; and no rejection reaches the runtime unhandled.
C27_NotInterrupted ==
    timer = "fired" =>
       /\ thunkP \in Settlements \cup {Unsettled}
       /\ toOut = TimeoutFailure
       /\ settles = 1
       /\ unhandled = {}

\* With ms 1 the timer fired, and 1 ms later thunk's promise was rejected and
\* its callback ran: the returned promise still carries the timeout failure.
C27_Witness ==
    /\ ms = 1
    /\ timer = "fired"
    /\ thunkP = [kind |-> "rejected", v |-> "error"]
    /\ pAt = 2
    /\ ~reaction
    /\ toOut = TimeoutFailure

\* ------------------------------------------------------------------------
\* Claims about the resolve phase

\* C30: whenever execute waits for a resolve to settle, the resolve of every
\* active macro has been called; and once the before phase has begun, every
\* active macro's resolve has fulfilled or the macro has none.
C30_ResolveFanOut ==
    /\ pc = "await" => \A m \in ActiveSet : st["resolve"][m] # "idle"
    /\ pc = "before" \/ AnyInvoked("before") =>
          \A m \in ActiveSet : st["resolve"][m] \in {"absent", "fulfilled"}

\* ------------------------------------------------------------------------
\* Claims about the context

\* C31: when no macro's match accepted the meta and run was called, its
\* argument has the keys and values of the object makeBase returned and no
\* others; and when run returned and execute has settled, execute returned
\* the value run returned.
C31_ContextPurity ==
    active = <<>> /\ runSt # "idle" =>
       /\ DOMAIN runCtx = DOMAIN MakeBase
       /\ \A k \in DOMAIN MakeBase : runCtx[k] = MakeBase[k]
       /\ runSt = "returned" /\ pc = "done" => output = Fulfilled(runRet)

\* Both macros declined, run got the base context and returned: execute
\* returned run's value.
C31_Witness ==
    /\ active = <<>>
    /\ \A m \in Macros : matchCalls[m] = 1
    /\ runSt = "returned"
    /\ runCtx = MakeBase
    /\ pc = "done"
    /\ output = Fulfilled(runRet)
    /\ IsDefined(runRet)

\* ------------------------------------------------------------------------
\* Claims about invalidation

\* Of the map, this step removed the entries with a key in ks and left every
\* other entry as it was.
RemovedOnly(ks) ==
    /\ KeysOf(map') = KeysOf(map) \ ks
    /\ \A k \in KeysOf(map') : Entry(map', k) = Entry(map, k)

\* C32: invalidateKey(k) removes the entry of k and no other; invalidateWhere
\* removes the entries whose key and value satisfy the predicate and leaves
\* every other entry with its value; clear leaves no entry.
C32_InvalidationFrame ==
    [][/\ CacheCalled("invalidateKey") => RemovedOnly({cacheOp'.key})
       /\ CacheCalled("invalidateWhere") =>
             \A p \in Predicates :
                map' = DeleteWhere(map, p.ks, p.vs) =>
                   RemovedOnly({k \in KeysOf(map) :
                                   k \in p.ks /\ Entry(map, k).v \in p.vs})
       /\ CacheCalled("clear") => map' = <<>>]_vars

\* invalidateWhere removed one entry of a cache and left another.
C32_Witness ==
    /\ cacheOp.op = "invalidateWhere"
    /\ cacheOp.out # {}
    /\ Len(map) > 0

\* ------------------------------------------------------------------------
\* Claims about retrying inside execute

\* result = await s.run(ctx): the calls one execute has made to run.
RunCalls == IF runSt = "idle" THEN 0 ELSE 1

\* A macro whose onError turns the failure into a value is among the active
\* ones, as retryMacro is when the metadata carries a retry policy.
RetryMacroActive ==
    \E i \in 1..Len(active) : st["onError"][active[i]] = "value"

\* C33: with a retry macro active and a policy of n attempts, an execute call
\* is over only when run has succeeded or has been invoked n times.
C33_ExecuteRetries ==
    \A n \in 2..MaxTimes :
       pc = "done" /\ RetryMacroActive /\ runSt # "idle" =>
          runSt = "returned" \/ RunCalls >= n

\* ------------------------------------------------------------------------
\* Claims about the context of onError

\* C34: an onError hook is handed the composed context, the one run and the
\* before hooks were handed.
C34_OnErrorContext ==
    \A m \in Macros :
       st["onError"][m] \in {"undef", "value", "thrown"} =>
          /\ hookCtx["onError"][m] = ctx
          /\ hookCtx["onError"][m] = runCtx
          /\ \A b \in Macros :
                st["before"][b] \notin {"idle", "absent"} =>
                   hookCtx["onError"][m] = hookCtx["before"][b]

\* ------------------------------------------------------------------------
\* Claims about the sweep

\* hasExpiringEntries: an entry of the store carries an expiry.
HasExpiring(m) == \E n \in 1..Len(m) : m[n].exp # NoExp

\* C35: the sweep runs only while the store holds an entry with an expiry,
\* and it schedules a next sweep only if such an entry is left.
C35_SweepTerminates ==
    [][Sweep => /\ HasExpiring(store)
                /\ cleanupTimer' # NoTimer => HasExpiring(store')]_vars

\* ------------------------------------------------------------------------
\* Claims about the breaker under concurrent wrap calls

\* C36: a call admitted while the breaker was closed that settles while the
\* breaker is half_open leaves mode and halfProbeInFlight as they are.
C36_OnlyProbeLeavesHalfOpen ==
    [][\A c \in Callers :
          /\ wrapSt[c] = "inflight"
          /\ wrapSt'[c] \in {"returned", "threw"}
          /\ mode = "half_open"
          => UNCHANGED <<mode, halfProbeInFlight>>]_vars

\* C37: the counter stays below threshold, is zero while the breaker is open
\* or half_open, and a probe is marked in flight only while half_open.
C37_BreakerInvariants ==
    /\ failureCount < threshold
    /\ mode \in {"open", "half_open"} => failureCount = 0
    /\ halfProbeInFlight => mode = "half_open"

\* A breaker of threshold two that counted a failure, opened on the second
\* and has admitted a probe.
C37_Witness ==
    /\ threshold = 2
    /\ streak = 2
    /\ mode = "half_open"
    /\ halfProbeInFlight
    /\ failureCount = 0

\* The last breaker operation was an allow() that admitted a wrap call.
Admitted == lastCall.op = "allow" /\ lastCall.ret /\ lastCall.who \in Callers

\* The clock has stopped before the reset interval of an open breaker is over.
HorizonReached == clock = MaxTime /\ mode = "open" /\ ~Elapsed

\* C38: from an open or half_open breaker a later wrap call is admitted,
\* unless the clock stops before the reset interval is over.
C38_EventuallyAdmits ==
    (mode \in {"open", "half_open"} /\ ~Admitted) ~> (Admitted \/ HorizonReached)

\* A breaker that opened after time zero, was closed by its probe and has
\* admitted a further wrap call.
C38_Witness ==
    /\ openedAt > 0
    /\ mode = "closed"
    /\ Admitted
    /\ \E c \in Callers : wrapSt[c] = "inflight" /\ lastCall.who = c
    /\ \E d \in Callers : wrapSt[d] = "returned"

\* ------------------------------------------------------------------------
\* Claims about a failed run and the store

\* This step is the failure of run: execute rejects or returns what an
\* onError hook made of the failure.
Fails(x) ==
    /\ execSt[x].pc = "run"
    /\ execSt'[x].pc = "idle"
    /\ execSt'[x].out \in {Threw, RetrySignal}

\* C39: the failure of run writes nothing to the store, and the next execute
\* with the same cacheKey calls run again.
C39_FailureNotCached ==
    [][\A x \in Execs :
          /\ Fails(x) => store' = store
          /\ /\ execSt[x].out \in {Threw, RetrySignal}
             /\ Executes(x)
             /\ execSt'[x].key = execSt[x].key
             => execSt'[x].pc = "run"]_vars

\* A run has failed and an onError hook recovered it: the store holds the
\* entry of another key and none for the key of the failed run.
C39_Witness ==
    \E x \in Execs :
       /\ execSt[x].pc = "idle"
       /\ execSt[x].out = RetrySignal
       /\ ~Has(store, execSt[x].key)
       /\ Len(store) = 1

====
